---- MODULE Spec2Model ----
(***************************************************************************)
(* Character-card codec of the character card editor: the unified editor   *)
(* document (EditorCardData), its projections to the V1/V2/V3 wire cards,  *)
(* the lift back, version detection, and the PNG tEXt embedding.           *)
(***************************************************************************)
EXTENDS Integers, Sequences, FiniteSets, TLC

\* editorVersion is the editor's `version` state.
\* imageData is the data URL of the image shown, image the editor's imageBlob,
\* pending the dataUrlToBlob conversions that have not completed yet.
VARIABLES cardData, editorVersion, image, out, imageData, pending

vars == <<cardData, editorVersion, image, out, imageData, pending>>

(***************************************************************************)
(* JavaScript values.  Every value is a record [t, v]: t is the kind of    *)
(* the value and v what it holds.  An object holds a function from its own *)
(* keys to values, an array a sequence of values.                          *)
(***************************************************************************)
Undef == [t |-> "undefined", v |-> 0]
Null == [t |-> "null", v |-> 0]
Str(s) == [t |-> "string", v |-> s]
Num(n) == [t |-> "number", v |-> n]
Bool(b) == [t |-> "boolean", v |-> b]
Arr(s) == [t |-> "array", v |-> s]
Obj(f) == [t |-> "object", v |-> f]
EmptyMap == [k \in {} |-> Undef]

\* A call that may throw: either [throws |-> TRUE] or the returned value.
Thrown == [throws |-> TRUE, val |-> Undef]
Ret(x) == [throws |-> FALSE, val |-> x]

\* typeof x
TypeOf(x) == IF x.t \in {"null", "array", "object"} THEN "object" ELSE x.t

\* ToBoolean(x): what `!x`, `x || d` and `if (x)` test
Truthy(x) ==
  CASE x.t \in {"undefined", "null"} -> FALSE
    [] x.t = "string" -> x.v # ""
    [] x.t = "number" -> x.v # 0
    [] x.t = "boolean" -> x.v
    [] OTHER -> TRUE

\* x || d
OrElse(x, d) == IF Truthy(x) THEN x ELSE d

\* `k in x` is a TypeError unless x is an object (arrays included)
InThrows(x) == TypeOf(x) # "object" \/ x.t = "null"
In(k, x) == x.t = "object" /\ k \in DOMAIN x.v

\* `x.k` is a TypeError when x is null or undefined
GetThrows(x) == x.t \in {"null", "undefined"}
Get(x, k) == IF x.t = "object" /\ k \in DOMAIN x.v THEN x.v[k] ELSE Undef

\* Object.keys(x).length and x.length of an array
KeyCount(x) == Cardinality(DOMAIN x.v)
Length(x) == Len(x.v)

(***************************************************************************)
(* JSON.parse(JSON.stringify(x)): a key whose value is undefined is not    *)
(* serialized, an undefined array element is serialized as null.           *)
(***************************************************************************)
RECURSIVE JsonRoundTrip(_)
JsonRoundTrip(x) ==
  CASE x.t = "object" ->
         LET keep == {k \in DOMAIN x.v : x.v[k].t # "undefined"}
         IN  Obj([k \in keep |-> JsonRoundTrip(x.v[k])])
    [] x.t = "array" ->
         Arr([i \in 1..Len(x.v) |->
                IF x.v[i].t = "undefined" THEN Null ELSE JsonRoundTrip(x.v[i])])
    [] OTHER -> x

(***************************************************************************)
(* The editor document.  cardData is the object itself: a function from    *)
(* its keys to values.  Field(d, k) is the read d.k.                       *)
(***************************************************************************)
V1Fields == {"name", "description", "personality", "scenario", "first_mes", "mes_example"}

V2OnlyFields ==
  {"creator_notes", "system_prompt", "post_history_instructions", "alternate_greetings",
   "tags", "creator", "character_version", "extensions", "character_book"}

V3OnlyFields ==
  {"assets", "nickname", "creator_notes_multilingual", "source", "group_only_greetings",
   "creation_date", "modification_date"}

V2Fields == V1Fields \cup V2OnlyFields
V3Fields == V2Fields \cup V3OnlyFields

SpecVersion == {"v1", "v2", "v3"}

FieldsOf(ver) == CASE ver = "v1" -> V1Fields [] ver = "v2" -> V2Fields [] OTHER -> V3Fields

Field(d, k) == IF k \in DOMAIN d THEN d[k] ELSE Undef

createEmptyEditorData ==
  [name |-> Str(""), description |-> Str(""), personality |-> Str(""),
   scenario |-> Str(""), first_mes |-> Str(""), mes_example |-> Str(""),
   creator_notes |-> Str(""), system_prompt |-> Str(""),
   post_history_instructions |-> Str(""), alternate_greetings |-> Arr(<<>>),
   tags |-> Arr(<<>>), creator |-> Str(""), character_version |-> Str("1.0"),
   extensions |-> Obj(EmptyMap),
   assets |-> Arr(<<>>), nickname |-> Str(""),
   creator_notes_multilingual |-> Obj(EmptyMap), source |-> Arr(<<>>),
   group_only_greetings |-> Arr(<<>>)]

(***************************************************************************)
(* Projections: editor document -> wire card.                              *)
(***************************************************************************)
\* Mutant: the whole document is spread into the V1 card.
editorDataToV1Spread(data) == Obj(data)

editorDataToV1(data) ==
  Obj([name |-> Field(data, "name"), description |-> Field(data, "description"),
       personality |-> Field(data, "personality"), scenario |-> Field(data, "scenario"),
       first_mes |-> Field(data, "first_mes"), mes_example |-> Field(data, "mes_example")])

\* Mutant: the whole document is spread into the V2 card's data.
editorDataToV2Spread(data) ==
  Obj([spec |-> Str("chara_card_v2"), spec_version |-> Str("2.0"), data |-> Obj(data)])

editorDataToV2(data) ==
  Obj([spec |-> Str("chara_card_v2"),
       spec_version |-> Str("2.0"),
       data |-> Obj([k \in V2Fields |-> Field(data, k)])])

\* Mutant: an optional V3 field is emitted whenever it is not undefined.
V3IncludedIfDefined(data, k) == Field(data, k).t # "undefined"

\* `if (x) v3Data.k = x`, `if (x.length > 0) ...`, `if (Object.keys(x).length > 0) ...`
V3Included(data, k) ==
  LET x == Field(data, k)
  IN  CASE k \in {"assets", "source"} -> Length(x) > 0
        [] k = "creator_notes_multilingual" -> KeyCount(x) > 0
        [] OTHER -> Truthy(x)

V3OptionalFields == V3OnlyFields \ {"group_only_greetings"}

editorDataToV3(data) ==
  LET always == V2Fields \cup {"group_only_greetings"}
      opt == {k \in V3OptionalFields : V3Included(data, k)}
  IN  Obj([spec |-> Str("chara_card_v3"),
           spec_version |-> Str("3.0"),
           data |-> Obj([k \in always \cup opt |-> Field(data, k)])])

Project(data, ver) ==
  CASE ver = "v1" -> editorDataToV1(data)
    [] ver = "v2" -> editorDataToV2(data)
    [] OTHER -> editorDataToV3(data)

(***************************************************************************)
(* Lift: wire card -> editor document.                                     *)
(***************************************************************************)
\* Mutant: a missing character_version is left empty.
LiftDefaultEmptyVersion(k) ==
  CASE k \in {"alternate_greetings", "tags", "assets", "source", "group_only_greetings"} -> Arr(<<>>)
    [] k \in {"extensions", "creator_notes_multilingual"} -> Obj(EmptyMap)
    [] OTHER -> Str("")

\* The default each `x || d` of cardToEditorData falls back to.
LiftDefault(k) ==
  CASE k \in {"alternate_greetings", "tags", "assets", "source", "group_only_greetings"} -> Arr(<<>>)
    [] k \in {"extensions", "creator_notes_multilingual"} -> Obj(EmptyMap)
    [] k = "character_version" -> Str("1.0")
    [] OTHER -> Str("")

\* character_book, creation_date and modification_date are copied without `||`.
LiftCopied == {"character_book", "creation_date", "modification_date"}

\* Mutant: first_mes and mes_example are read from each other's key.
LiftFieldCrossed(src, k) ==
  LET from == CASE k = "first_mes" -> "mes_example"
                [] k = "mes_example" -> "first_mes"
                [] OTHER -> k
  IN  IF k \in LiftCopied THEN Get(src, from) ELSE OrElse(Get(src, from), LiftDefault(k))

\* Mutant: the `|| default` is forgotten.
LiftFieldNoDefault(src, k) == Get(src, k)

LiftField(src, k) == IF k \in LiftCopied THEN Get(src, k) ELSE OrElse(Get(src, k), LiftDefault(k))

\* Mutant: a falsy `spec` is taken for a missing one (`!card.spec`).
cardToEditorDataFalsySpec(card) ==
  LET base == createEmptyEditorData
  IN  IF GetThrows(card) THEN Thrown
      ELSE IF ~Truthy(Get(card, "spec"))
        THEN Ret([k \in V1Fields |-> LiftField(card, k)] @@ base)
      ELSE IF Get(card, "spec") = Str("chara_card_v2")
        THEN IF GetThrows(Get(card, "data")) THEN Thrown
             ELSE Ret([k \in V2Fields |-> LiftField(Get(card, "data"), k)] @@ base)
      ELSE IF Get(card, "spec") = Str("chara_card_v3")
        THEN IF GetThrows(Get(card, "data")) THEN Thrown
             ELSE Ret([k \in V3Fields |-> LiftField(Get(card, "data"), k)] @@ base)
      ELSE Ret(base)

cardToEditorData(card) ==
  LET base == createEmptyEditorData
  IN  IF InThrows(card) THEN Thrown
      ELSE IF ~In("spec", card)
        THEN Ret([k \in V1Fields |-> LiftField(card, k)] @@ base)
      ELSE IF Get(card, "spec") = Str("chara_card_v2")
        THEN IF GetThrows(Get(card, "data")) THEN Thrown
             ELSE Ret([k \in V2Fields |-> LiftField(Get(card, "data"), k)] @@ base)
      ELSE IF Get(card, "spec") = Str("chara_card_v3")
        THEN IF GetThrows(Get(card, "data")) THEN Thrown
             ELSE Ret([k \in V3Fields |-> LiftField(Get(card, "data"), k)] @@ base)
      ELSE Ret(base)

(***************************************************************************)
(* Version detection.                                                      *)
(***************************************************************************)
\* Mutant: the wrapped-data markers are consulted before the spec marker.
detectDataFirst(card) ==
  IF ~Truthy(card) \/ TypeOf(card) # "object" THEN Ret("v1")
  ELSE IF In("data", card) /\ Get(card, "data").t = "object"
          /\ (In("group_only_greetings", Get(card, "data")) \/ In("assets", Get(card, "data")))
    THEN Ret("v3")
  ELSE IF In("data", card) /\ Get(card, "data").t = "object"
          /\ (In("creator_notes", Get(card, "data")) \/ In("system_prompt", Get(card, "data")))
    THEN Ret("v2")
  ELSE IF Get(card, "spec") = Str("chara_card_v3") THEN Ret("v3")
  ELSE IF Get(card, "spec") = Str("chara_card_v2") THEN Ret("v2")
  ELSE Ret("v1")

detectCardVersion(card) ==
  IF ~Truthy(card) \/ TypeOf(card) # "object" THEN Ret("v1")
  ELSE IF Get(card, "spec") = Str("chara_card_v3") THEN Ret("v3")
  ELSE IF Get(card, "spec") = Str("chara_card_v2") THEN Ret("v2")
  ELSE IF In("data", card) /\ TypeOf(Get(card, "data")) = "object"
    THEN LET data == Get(card, "data")
         IN  IF InThrows(data) THEN Thrown
             ELSE IF In("group_only_greetings", data) \/ In("assets", data) THEN Ret("v3")
             ELSE IF In("creator_notes", data) \/ In("system_prompt", data) THEN Ret("v2")
             ELSE Ret("v1")
  ELSE Ret("v1")

(***************************************************************************)
(* The editor: the values its form fields can be given.                    *)
(***************************************************************************)
MaxEdits == 1

SampleEntry ==
  Obj([keys |-> Arr(<<Str("key")>>), content |-> Str("lore"), extensions |-> Obj(EmptyMap),
       enabled |-> Bool(TRUE), insertion_order |-> Num(1), id |-> Num(1),
       name |-> Str(""), priority |-> Num(10), position |-> Str("before_char"),
       use_regex |-> Bool(TRUE)])

SampleBook == Obj([extensions |-> Obj(EmptyMap), entries |-> Arr(<<SampleEntry>>)])

SampleAsset == Obj([type |-> Str("icon"), uri |-> Str(""), name |-> Str(""), ext |-> Str("png")])

FieldValues(k) ==
  CASE k \in {"alternate_greetings", "tags", "source", "group_only_greetings"} ->
         {Arr(<<>>), Arr(<<Str("x")>>)}
    [] k = "assets" -> {Arr(<<>>), Arr(<<SampleAsset>>)}
    [] k = "extensions" -> {Obj(EmptyMap), Obj([depth |-> Num(0)])}
    [] k = "creator_notes_multilingual" -> {Obj(EmptyMap), Obj([en |-> Str("x")])}
    [] k = "character_version" -> {Str(""), Str("1.0"), Str("2.0")}
    [] k = "character_book" -> {Undef, SampleBook}
    [] k \in {"creation_date", "modification_date"} -> {Undef, Num(0), Num(5)}
    [] OTHER -> {Str(""), Str("A")}

\* The fields of d that differ from a new card's.
Edited(d) == {k \in V3Fields : Field(d, k) # Field(createEmptyEditorData, k)}

NoOut == [op |-> "none"]

TypeOK ==
  /\ DOMAIN createEmptyEditorData \subseteq DOMAIN cardData
  /\ DOMAIN cardData \subseteq V3Fields
  /\ \A k \in DOMAIN cardData : cardData[k] \in FieldValues(k)

(***************************************************************************)
(* Editing, export to a wire card, and import of a wire card.              *)
(***************************************************************************)
\* updateCardData({k: x}): setCardData(prev => ({...prev, ...changes}))
UpdateCardData(k, x) ==
  /\ Cardinality(Edited((k :> x) @@ cardData)) <= MaxEdits
  /\ cardData' = (k :> x) @@ cardData
  /\ out' = NoOut
  /\ UNCHANGED <<editorVersion, image, imageData, pending>>

\* downloadJson's card: the projection of the current document to version ver
ExportCard(ver) ==
  /\ out.op = "none"
  /\ out' = [op |-> "project", ver |-> ver, doc |-> cardData, card |-> Project(cardData, ver)]
  /\ UNCHANGED <<cardData, editorVersion, image, imageData, pending>>

\* cardToEditorData applied to the card just exported
LiftExported ==
  /\ out.op = "project"
  /\ out' = [op |-> "lift", ver |-> out.ver, doc |-> out.doc, card |-> out.card,
             res |-> cardToEditorData(out.card)]
  /\ UNCHANGED <<cardData, editorVersion, image, imageData, pending>>

\* A byte stream that extractChunks rejects (no signature, or cut short).
Malformed == [parses |-> FALSE, chunks |-> <<>>]

Init ==
  /\ cardData = createEmptyEditorData
  /\ editorVersion = "v2"
  /\ image = Malformed
  /\ out = NoOut
  /\ imageData = Null
  /\ pending = {}

Next ==
  \/ \E k \in V3Fields : \E x \in FieldValues(k) : UpdateCardData(k, x)
  \/ \E ver \in SpecVersion : ExportCard(ver)
  \/ LiftExported

Spec == Init /\ [][Next]_vars

(***************************************************************************)
(* Parsed JSON handed to the detector: every kind of JSON value, and       *)
(* objects with each shape of `spec` and `data`.                           *)
(***************************************************************************)
Absent == [t |-> "absent", v |-> 0]

SpecShapes ==
  {Absent, Str("chara_card_v3"), Str("chara_card_v2"), Str("chara_card_v99"),
   Arr(<<Str("chara_card_v3")>>), Obj([toString |-> Str("chara_card_v3")]), Null}

DataMarkers ==
  [group_only_greetings |-> Arr(<<Str("g")>>), assets |-> Arr(<<SampleAsset>>),
   creator_notes |-> Str("notes"), system_prompt |-> Str("prompt"), name |-> Str("A"),
   character_version |-> Str("")]

DataShapes ==
  {Absent, Null, Str("data"), Num(1), Arr(<<>>)}
    \cup {Obj([k \in ks |-> DataMarkers[k]]) : ks \in SUBSET DOMAIN DataMarkers}

\* The object with the given own keys: a key whose shape is Absent is not there.
WithKeys(f) == Obj([k \in {k \in DOMAIN f : f[k] # Absent} |-> f[k]])

JsonObjects ==
  {WithKeys([spec |-> s, data |-> d, name |-> n]) :
     s \in SpecShapes, d \in DataShapes, n \in {Absent, Str("A")}}

JsonInputs ==
  {Null, Bool(FALSE), Bool(TRUE), Num(0), Num(123), Str(""), Str("string"),
   Arr(<<>>), Arr(<<editorDataToV3(createEmptyEditorData)>>)} \cup JsonObjects

\* detectCardVersion(parsed) on a parsed JSON file
Detect(j) ==
  /\ out' = [op |-> "detect", arg |-> j, res |-> detectCardVersion(j)]
  /\ UNCHANGED <<cardData, editorVersion, image, imageData, pending>>

\* cardToEditorData(parsed) on a parsed JSON file
LiftJson(j) ==
  /\ out' = [op |-> "liftjson", arg |-> j, res |-> cardToEditorData(j)]
  /\ UNCHANGED <<cardData, editorVersion, image, imageData, pending>>

NextDetect == \E j \in JsonInputs : Detect(j) \/ LiftJson(j)

SpecDetect == Init /\ [][NextDetect]_vars

(***************************************************************************)
(* Text transforms.  A JSON text is held by the value it parses to (or as  *)
(* text that does not parse); a tEXt text by the string it decodes to, or  *)
(* as text that atob or the UTF-8 decoding rejects.                        *)
(***************************************************************************)
NotJson == [json |-> FALSE, val |-> Undef]

\* JSON.stringify(x) and JSON.parse(s)
JSONstringify(x) == [json |-> TRUE, val |-> JsonRoundTrip(x)]
JSONparse(s) == IF s.json THEN Ret(s.val) ELSE Thrown

\* btoa(unescape(encodeURIComponent(s)))
EncodeBase64(s) == [b64 |-> TRUE, utf8 |-> TRUE, str |-> s]

\* decodeURIComponent(escape(atob(t)))
DecodeBase64(t) == IF t.b64 /\ t.utf8 THEN Ret(t.str) ELSE Thrown

NotBase64 == [b64 |-> FALSE, utf8 |-> FALSE, str |-> NotJson]
NotJsonText == EncodeBase64(NotJson)

(***************************************************************************)
(* The PNG libraries, by their declared interface: extractChunks returns   *)
(* the chunks of a stream or throws, encodeChunks writes the chunks given, *)
(* text.decode returns {keyword, text} or throws, text.encode builds a     *)
(* tEXt chunk.                                                             *)
(***************************************************************************)
Opaque == [decodes |-> FALSE, keyword |-> "", text |-> NotBase64]

extractChunks(bytes) == IF bytes.parses THEN Ret(bytes.chunks) ELSE Thrown
encodeChunks(chunks) == [parses |-> TRUE, chunks |-> chunks]

textDecode(data) ==
  IF data.decodes THEN Ret([keyword |-> data.keyword, text |-> data.text]) ELSE Thrown

textEncode(keyword, text) ==
  [name |-> "tEXt", data |-> [decodes |-> TRUE, keyword |-> keyword, text |-> text]]

(***************************************************************************)
(* extractCardFromPng                                                      *)
(***************************************************************************)
NullCard == [isNull |-> TRUE, card |-> Undef, detectedVersion |-> "none"]
FoundCard(card, ver) == [isNull |-> FALSE, card |-> card, detectedVersion |-> ver]

\* Where `for (const chunk of chunks)` leaves the loop looking for keyword kw:
\* the first tEXt chunk that fails to decode or carries kw; 0 when it runs out.
LoopStop(chunks, kw) ==
  LET stops == {i \in 1..Len(chunks) :
                  /\ chunks[i].name = "tEXt"
                  /\ \/ textDecode(chunks[i].data).throws
                     \/ textDecode(chunks[i].data).val.keyword = kw}
  IN  IF stops = {} THEN 0 ELSE CHOOSE i \in stops : \A j \in stops : i <= j

\* JSON.parse(decodeURIComponent(escape(atob(decoded.text))))
ParseCardText(t) ==
  IF DecodeBase64(t).throws THEN Thrown ELSE JSONparse(DecodeBase64(t).val)

\* The body of the first loop at the ccv3 chunk
ReadCcv3(decoded) ==
  IF ParseCardText(decoded.text).throws THEN Thrown
  ELSE Ret(FoundCard(ParseCardText(decoded.text).val, "v3"))

\* Mutant: every chara card is tagged v2.
ReadCharaAlwaysV2(decoded) ==
  LET parsed == ParseCardText(decoded.text)
  IN  IF parsed.throws \/ detectCardVersion(parsed.val).throws THEN Thrown
      ELSE Ret(FoundCard(parsed.val, "v2"))

\* The body of the second loop at the chara chunk
ReadChara(decoded) ==
  LET parsed == ParseCardText(decoded.text)
      version == detectCardVersion(parsed.val)
  IN  IF parsed.throws \/ version.throws THEN Thrown
      ELSE IF version.val = "v2" THEN Ret(FoundCard(parsed.val, "v2"))
      ELSE IF GetThrows(parsed.val) THEN Thrown
      ELSE IF Get(parsed.val, "spec") = Str("chara_card_v2") THEN Ret(FoundCard(parsed.val, "v2"))
      ELSE Ret(FoundCard(parsed.val, "v1"))

\* The statements inside `try`
ExtractBody(bytes) ==
  IF extractChunks(bytes).throws THEN Thrown
  ELSE LET chunks == extractChunks(bytes).val
           i == LoopStop(chunks, "ccv3")
           j == LoopStop(chunks, "chara")
       IN  IF i # 0
             THEN IF textDecode(chunks[i].data).throws THEN Thrown
                  ELSE ReadCcv3(textDecode(chunks[i].data).val)
           ELSE IF j # 0
             THEN IF textDecode(chunks[j].data).throws THEN Thrown
                  ELSE ReadChara(textDecode(chunks[j].data).val)
           ELSE Ret(NullCard)

\* Mutant: no try/catch around the body.
extractWithoutCatch(bytes) == ExtractBody(bytes)

\* Mutant: a card whose JSON does not parse is returned as an empty V1 card.
extractLenient(bytes) ==
  IF ExtractBody(bytes).throws
    THEN IF bytes.parses THEN Ret(FoundCard(Obj(EmptyMap), "v1")) ELSE Ret(NullCard)
    ELSE ExtractBody(bytes)

\* try { ... } catch { return null }
extractCardFromPng(bytes) ==
  IF ExtractBody(bytes).throws THEN Ret(NullCard) ELSE ExtractBody(bytes)

(***************************************************************************)
(* embedCardInPng                                                          *)
(***************************************************************************)
\* Mutant: the filter removes chara chunks only.
KeepChunkButChara(chunk) ==
  IF chunk.name = "tEXt"
    THEN IF textDecode(chunk.data).throws THEN TRUE
         ELSE textDecode(chunk.data).val.keyword # "chara"
    ELSE TRUE

\* Mutant: the filter's catch drops the chunk that fails to decode.
KeepChunkDropUndecodable(chunk) ==
  IF chunk.name = "tEXt"
    THEN IF textDecode(chunk.data).throws THEN FALSE
         ELSE textDecode(chunk.data).val.keyword \notin {"chara", "ccv3"}
    ELSE TRUE

\* The filter callback: keep every chunk but a tEXt chunk that decodes with
\* keyword chara or ccv3.
KeepChunk(chunk) ==
  IF chunk.name = "tEXt"
    THEN IF textDecode(chunk.data).throws THEN TRUE
         ELSE textDecode(chunk.data).val.keyword \notin {"chara", "ccv3"}
    ELSE TRUE

\* findIndex(c => c.name === 'IEND'), 1-based; 0 for -1
IendIndex(chunks) ==
  LET at == {i \in 1..Len(chunks) : chunks[i].name = "IEND"}
  IN  IF at = {} THEN 0 ELSE CHOOSE i \in at : \A j \in at : i <= j

\* Mutant: only V1 cards go under the chara keyword.
ChunkKeywordV1Only(version) == IF version = "v1" THEN "chara" ELSE "ccv3"

ChunkKeyword(version) == IF version \in {"v1", "v2"} THEN "chara" ELSE "ccv3"

CardChunk(data, version) ==
  textEncode(ChunkKeyword(version), EncodeBase64(JSONstringify(Project(data, version))))

\* Mutant: splice(iendIndex, 1, cardChunk) overwrites the IEND chunk.
InsertCardChunkOverIend(chunks, cardChunk) ==
  LET i == IendIndex(chunks)
  IN  IF i # 0
        THEN SubSeq(chunks, 1, i - 1) \o <<cardChunk>> \o SubSeq(chunks, i + 1, Len(chunks))
        ELSE Append(chunks, cardChunk)

\* Mutant: the card chunk is always pushed at the end.
InsertCardChunkAtEnd(chunks, cardChunk) == Append(chunks, cardChunk)

\* splice(iendIndex, 0, cardChunk), or push(cardChunk)
InsertCardChunk(chunks, cardChunk) ==
  LET i == IendIndex(chunks)
  IN  IF i # 0
        THEN SubSeq(chunks, 1, i - 1) \o <<cardChunk>> \o SubSeq(chunks, i, Len(chunks))
        ELSE Append(chunks, cardChunk)

\* Mutant: a stream that does not parse is handed back as it came.
embedReturnsInput(bytes, data, version) ==
  IF extractChunks(bytes).throws THEN Ret(bytes)
  ELSE LET filteredChunks == SelectSeq(extractChunks(bytes).val, KeepChunk)
       IN  Ret(encodeChunks(InsertCardChunk(filteredChunks, CardChunk(data, version))))

embedCardInPng(bytes, data, version) ==
  IF extractChunks(bytes).throws THEN Thrown
  ELSE LET filteredChunks == SelectSeq(extractChunks(bytes).val, KeepChunk)
       IN  Ret(encodeChunks(InsertCardChunk(filteredChunks, CardChunk(data, version))))

(***************************************************************************)
(* Images handed to the codec: chunk streams of at most MaxChunks chunks   *)
(* drawn from ChunkKinds, and streams that do not parse.                   *)
(***************************************************************************)
MaxChunks == 3

StoredDoc == ("name" :> Str("B")) @@ createEmptyEditorData

CardTexts(kw) ==
  IF kw = "ccv3"
    THEN {EncodeBase64(JSONstringify(editorDataToV3(StoredDoc))), NotBase64, NotJsonText}
  ELSE IF kw = "chara"
    THEN {EncodeBase64(JSONstringify(editorDataToV1(StoredDoc))),
          EncodeBase64(JSONstringify(editorDataToV2(StoredDoc))),
          EncodeBase64(JSONstringify(editorDataToV3(StoredDoc))), NotBase64, NotJsonText}
  ELSE {NotBase64}

BadText == [name |-> "tEXt", data |-> Opaque]

ChunkKinds ==
  {[name |-> "IHDR", data |-> Opaque], [name |-> "IEND", data |-> Opaque], BadText}
    \cup {textEncode(kw, t) : kw \in {"chara"}, t \in CardTexts("chara")}
    \cup {textEncode(kw, t) : kw \in {"ccv3"}, t \in CardTexts("ccv3")}
    \cup {textEncode(kw, t) : kw \in {"Comment"}, t \in CardTexts("Comment")}

EmptyPng == [parses |-> TRUE, chunks |-> <<>>]
Png(chunks) == [parses |-> TRUE, chunks |-> chunks]

PngDocs ==
  {createEmptyEditorData,
   [name |-> Str("A"), character_version |-> Str(""), nickname |-> Str("N"),
    creation_date |-> Num(0), character_book |-> SampleBook] @@ createEmptyEditorData}

\* The image file grows by one chunk
AddChunk(c) ==
  /\ image.parses /\ Len(image.chunks) < MaxChunks /\ out.op = "none"
  /\ image' = [image EXCEPT !.chunks = Append(@, c)]
  /\ UNCHANGED <<cardData, editorVersion, out, imageData, pending>>

\* The image file is cut short or loses its signature
Corrupt ==
  /\ image.parses /\ out.op = "none"
  /\ image' = Malformed
  /\ UNCHANGED <<cardData, editorVersion, out, imageData, pending>>

\* extractCardFromPng(file) on the image file
ExtractPng ==
  /\ out.op = "none"
  /\ out' = [op |-> "extract", img |-> image, res |-> extractCardFromPng(image)]
  /\ UNCHANGED <<cardData, editorVersion, image, imageData, pending>>

\* embedCardInPng(imageBlob, cardData, version)
EmbedPng(ver) ==
  /\ out.op = "none"
  /\ out' = [op |-> "embed", ver |-> ver, doc |-> cardData, img |-> image,
             res |-> embedCardInPng(image, cardData, ver)]
  /\ UNCHANGED <<cardData, editorVersion, image, imageData, pending>>

\* extractCardFromPng(file) on the PNG just exported
ExtractExported ==
  /\ out.op = "embed" /\ ~out.res.throws
  /\ out' = [op |-> "reextract", ver |-> out.ver, doc |-> out.doc, img |-> out.img,
             exported |-> out.res.val, res |-> extractCardFromPng(out.res.val)]
  /\ UNCHANGED <<cardData, editorVersion, image, imageData, pending>>

\* embedCardInPng(blob, d, ver) on the PNG a previous Embed returned
EmbedAgain(d, ver) ==
  /\ out.op \in {"embed", "reembed"} /\ ~out.res.throws
  /\ out' = [op |-> "reembed", ver |-> ver, doc |-> d, img |-> out.img,
             res |-> embedCardInPng(out.res.val, d, ver)]
  /\ UNCHANGED <<cardData, editorVersion, image, imageData, pending>>

InitPng ==
  /\ cardData \in PngDocs
  /\ editorVersion = "v2"
  /\ image = EmptyPng
  /\ out = NoOut
  /\ imageData = Null
  /\ pending = {}

NextPng ==
  \/ \E c \in ChunkKinds : AddChunk(c)
  \/ Corrupt
  \/ ExtractPng
  \/ \E ver \in SpecVersion : EmbedPng(ver)
  \/ ExtractExported

SpecPng == InitPng /\ [][NextPng]_vars

\* Repeated export: the image is any stream of at most MaxSeedChunks chunks,
\* embedded into once and then again and again.
MaxSeedChunks == 2

SeedImages == {Png(chunks) : chunks \in UNION {[1..n -> ChunkKinds] : n \in 0..MaxSeedChunks}}

InitEmbedSeq ==
  /\ cardData \in PngDocs
  /\ editorVersion = "v2"
  /\ image \in SeedImages
  /\ out = NoOut
  /\ imageData = Null
  /\ pending = {}

NextEmbedSeq ==
  \/ \E ver \in SpecVersion : EmbedPng(ver)
  \/ \E d \in PngDocs, ver \in SpecVersion : EmbedAgain(d, ver)

SpecEmbedSeq == InitEmbedSeq /\ [][NextEmbedSeq]_vars

(***************************************************************************)
(* Properties of the projections and the lift (under Spec).                *)
(***************************************************************************)
Lifted == out.op = "lift"
Projected(ver) == out.op \in {"project", "lift"} /\ out.ver = ver

\* C1 as stated: lifting the projection of d to v gives back d's value in
\* every field v can represent.
C1_RoundTripEveryField ==
  Lifted =>
    /\ ~out.res.throws
    /\ \A k \in FieldsOf(out.ver) : Field(out.res.val, k) = Field(out.doc, k)

\* The fields of version ver whose value in d does not survive the round trip:
\* an empty character_version (V2, V3) and a date of 0 (V3).
RoundTripLossy(d, ver, k) ==
  \/ ver # "v1" /\ k = "character_version" /\ Field(d, k) = Str("")
  \/ ver = "v3" /\ k \in {"creation_date", "modification_date"} /\ Field(d, k) = Num(0)

\* C1 amended: lifting the projection of d to v gives back d's value in every
\* field v can represent, except that an empty character_version comes back
\* as "1.0" (V2, V3) and a creation_date or modification_date of 0 comes back
\* undefined (V3).
C1_RoundTripAmended ==
  Lifted =>
    /\ ~out.res.throws
    /\ \A k \in FieldsOf(out.ver) :
         IF RoundTripLossy(out.doc, out.ver, k)
           THEN Field(out.res.val, k) = (IF k = "character_version" THEN Str("1.0") ELSE Undef)
           ELSE Field(out.res.val, k) = Field(out.doc, k)

C1_Witness ==
  /\ Lifted /\ out.ver = "v3" /\ ~out.res.throws
  /\ Field(out.doc, "nickname") = Str("A")
  /\ Field(out.res.val, "nickname") = Str("A")

\* A value that is non-empty / non-zero: a list with an element, a map with a
\* key, a string other than "", a number other than 0.
NonEmptyValue(x) ==
  CASE x.t = "array" -> x.v # <<>>
    [] x.t = "object" -> DOMAIN x.v # {}
    [] x.t = "string" -> x.v # ""
    [] x.t = "number" -> x.v # 0
    [] OTHER -> FALSE

\* C9: the V3 projection always has data.group_only_greetings, and has each of
\* assets, nickname, creator_notes_multilingual, source, creation_date and
\* modification_date, with the document's value, exactly when that value is
\* non-empty / non-zero; a date of 0 gives no key.
C9_V3OmissionRule ==
  Projected("v3") =>
    LET data == Get(out.card, "data")
    IN  /\ In("group_only_greetings", data)
        /\ Get(data, "group_only_greetings") = Field(out.doc, "group_only_greetings")
        /\ \A k \in {"assets", "nickname", "creator_notes_multilingual", "source",
                     "creation_date", "modification_date"} :
             /\ In(k, data) <=> NonEmptyValue(Field(out.doc, k))
             /\ In(k, data) => Get(data, k) = Field(out.doc, k)
        /\ \A k \in {"creation_date", "modification_date"} :
             Field(out.doc, k) = Num(0) => ~In(k, data)

C9_Witness ==
  /\ Projected("v3")
  /\ Field(out.doc, "creation_date") = Num(0)
  /\ ~In("creation_date", Get(out.card, "data"))

\* C10: the V1 projection is an object with exactly the six keys name,
\* description, personality, scenario, first_mes, mes_example, each with the
\* document's value, and no spec marker or other key.
C10_V1ExactlySixKeys ==
  Projected("v1") =>
    /\ out.card.t = "object"
    /\ DOMAIN out.card.v =
         {"name", "description", "personality", "scenario", "first_mes", "mes_example"}
    /\ \A k \in DOMAIN out.card.v : out.card.v[k] = Field(out.doc, k)
    /\ ~In("spec", out.card)

C10_Witness ==
  /\ Projected("v1")
  /\ Field(out.doc, "creator_notes") = Str("A")
  /\ ~In("creator_notes", out.card)

(***************************************************************************)
(* Properties of the detector (under SpecDetect).                          *)
(***************************************************************************)
Detected == out.op = "detect"

\* The detection rules as the specification lists them, first match wins.
DetectRules(j) ==
  LET data == Get(j, "data")
  IN  IF j.t # "object" THEN "v1"
      ELSE IF Get(j, "spec") = Str("chara_card_v3") THEN "v3"
      ELSE IF Get(j, "spec") = Str("chara_card_v2") THEN "v2"
      ELSE IF data.t = "object" /\ (In("group_only_greetings", data) \/ In("assets", data))
        THEN "v3"
      ELSE IF data.t = "object" /\ (In("creator_notes", data) \/ In("system_prompt", data))
        THEN "v2"
      ELSE "v1"

\* C6 as stated: for every JSON value the detector returns, without throwing,
\* the version the ordered rules give.
C6_DetectFollowsRules ==
  Detected => ~out.res.throws /\ out.res.val = DetectRules(out.arg)

\* C7: an object whose spec is exactly "chara_card_v3" is detected as v3,
\* whatever its data is or contains.
C7_SpecV3IsFull ==
  (Detected /\ out.arg.t = "object" /\ Get(out.arg, "spec") = Str("chara_card_v3"))
    => ~out.res.throws /\ out.res.val = "v3"

C7_Witness ==
  /\ Detected
  /\ Get(out.arg, "spec") = Str("chara_card_v3")
  /\ In("creator_notes", Get(out.arg, "data"))
  /\ ~In("group_only_greetings", Get(out.arg, "data"))
  /\ ~out.res.throws /\ out.res.val = "v3"

\* C8 as stated: an object whose spec is not the literal string
\* "chara_card_v3" or "chara_card_v2" is not classified by the marker rules,
\* and with no data sub-object it is detected as v1.
C8_StrictSpecNoData ==
  (/\ Detected /\ out.arg.t = "object"
   /\ Get(out.arg, "spec") \notin {Str("chara_card_v3"), Str("chara_card_v2")}
   /\ Get(out.arg, "data").t # "object")
    => ~out.res.throws /\ out.res.val = "v1"

(***************************************************************************)
(* Properties of extraction and embedding (under SpecPng).                 *)
(***************************************************************************)
Extracted == out.op = "extract"
ReExtracted == out.op = "reextract"

\* The tEXt chunks of a chunk list that decode with keyword kw, and the first.
CardChunksAt(chunks, kw) ==
  {i \in 1..Len(chunks) :
     chunks[i].name = "tEXt" /\ chunks[i].data.decodes /\ chunks[i].data.keyword = kw}

FirstCardChunk(chunks, kw) ==
  CHOOSE i \in CardChunksAt(chunks, kw) : \A j \in CardChunksAt(chunks, kw) : i <= j

\* The text is base64 of UTF-8 JSON text.
DecodesFully(t) == t.b64 /\ t.utf8 /\ t.str.json

\* C2 as stated: Extract applied to Embed(img, d, v) returns a non-null
\* document equal to Project(d, v), as serialized, for every image that parses.
C2_ExtractAfterEmbed ==
  ReExtracted =>
    /\ ~out.res.throws
    /\ ~out.res.val.isNull
    /\ out.res.val.card = JsonRoundTrip(Project(out.doc, out.ver))
    /\ cardToEditorData(out.res.val.card) = cardToEditorData(Project(out.doc, out.ver))

\* C3 as stated: a stream with a chara chunk and a ccv3 chunk (each carrying
\* a document) extracts the document of the ccv3 chunk, tagged v3, whichever
\* comes first.
C3_Ccv3BeforeChara ==
  (/\ Extracted /\ out.img.parses
   /\ CardChunksAt(out.img.chunks, "chara") # {}
   /\ CardChunksAt(out.img.chunks, "ccv3") # {}
   /\ \A i \in CardChunksAt(out.img.chunks, "chara") \cup CardChunksAt(out.img.chunks, "ccv3") :
        DecodesFully(out.img.chunks[i].data.text))
    => /\ ~out.res.throws
       /\ ~out.res.val.isNull
       /\ out.res.val.detectedVersion = "v3"
       /\ \E i \in CardChunksAt(out.img.chunks, "ccv3") :
            out.res.val.card = out.img.chunks[i].data.text.str.val

\* C4: Extract never throws, and returns null for a stream that does not parse.
C4_ExtractNeverThrows ==
  (Extracted \/ ReExtracted) =>
    /\ ~out.res.throws
    /\ (~(IF Extracted THEN out.img ELSE out.exported).parses => out.res.val = NullCard)

C4_Witness ==
  Extracted /\ ~out.img.parses /\ ~out.res.throws /\ out.res.val = NullCard

\* The chunk Extract reads the card from: the first ccv3 chunk, or with none
\* the first chara chunk.
SelectedChunk(chunks) ==
  IF CardChunksAt(chunks, "ccv3") # {} THEN chunks[FirstCardChunk(chunks, "ccv3")]
  ELSE chunks[FirstCardChunk(chunks, "chara")]

HasCardChunk(chunks) ==
  CardChunksAt(chunks, "ccv3") # {} \/ CardChunksAt(chunks, "chara") # {}

\* C5: Extract returns the one null when no tEXt chunk has keyword chara or
\* ccv3, when the selected chunk's text is not base64, and when the decoded
\* text is not JSON; a non-null result is the document of a card chunk that
\* decodes fully.
C5_NullWhenNoCardDecodes ==
  (Extracted /\ out.img.parses) =>
    LET chunks == out.img.chunks
    IN  /\ ~out.res.throws
        /\ ~HasCardChunk(chunks) => out.res.val = NullCard
        /\ (HasCardChunk(chunks) /\ ~DecodesFully(SelectedChunk(chunks).data.text))
             => out.res.val = NullCard
        /\ ~out.res.val.isNull =>
             /\ HasCardChunk(chunks)
             /\ DecodesFully(SelectedChunk(chunks).data.text)
             /\ out.res.val.card = SelectedChunk(chunks).data.text.str.val

C5_Witness ==
  /\ Extracted /\ out.img.parses
  /\ CardChunksAt(out.img.chunks, "ccv3") = {}
  /\ CardChunksAt(out.img.chunks, "chara") # {}
  /\ SelectedChunk(out.img.chunks).data.text = NotJsonText
  /\ out.res.val = NullCard

(***************************************************************************)
(* Properties of the Extended projection (under Spec).                     *)
(***************************************************************************)
\* The card as JSON.stringify writes it and JSON.parse reads it back.
Serialized(card) == JSONparse(JSONstringify(card)).val

\* C11: the V2 projection has spec "chara_card_v2" and spec_version "2.0",
\* copies the base and Extended fields, has no Full-only key in data, and its
\* serialized JSON has a character_book exactly when the document has one.
C11_V2Projection ==
  Projected("v2") =>
    LET data == Get(out.card, "data")
        wire == Get(Serialized(out.card), "data")
    IN  /\ Get(out.card, "spec") = Str("chara_card_v2")
        /\ Get(out.card, "spec_version") = Str("2.0")
        /\ DOMAIN out.card.v = {"spec", "spec_version", "data"}
        /\ \A k \in {"name", "description", "personality", "scenario", "first_mes",
                     "mes_example", "creator_notes", "system_prompt",
                     "post_history_instructions", "alternate_greetings", "tags",
                     "creator", "character_version", "extensions"} :
             /\ Get(data, k) = Field(out.doc, k)
             /\ In(k, wire) /\ Get(wire, k) = Field(out.doc, k)
        /\ \A k \in {"assets", "nickname", "group_only_greetings", "source",
                     "creator_notes_multilingual", "creation_date", "modification_date"} :
             ~In(k, data) /\ ~In(k, wire)
        /\ In("character_book", wire) <=> Field(out.doc, "character_book").t # "undefined"
        /\ In("character_book", wire) =>
             Get(wire, "character_book") = Field(out.doc, "character_book")

C11_Witness ==
  /\ Projected("v2")
  /\ Field(out.doc, "character_book") = SampleBook
  /\ Get(Get(Serialized(out.card), "data"), "character_book") = SampleBook

(***************************************************************************)
(* Properties of Lift on parsed JSON (under SpecDetect).                   *)
(***************************************************************************)
LiftedJson == out.op = "liftjson"

\* The wire object Lift reads its fields from: the card itself for Legacy,
\* its data object for Extended and Full.
WireFields(card) == IF In("spec", card) THEN Get(card, "data") ELSE card

WireKeys(card) ==
  IF ~In("spec", card) THEN {"name", "description", "personality", "scenario",
                             "first_mes", "mes_example"}
  ELSE IF Get(card, "spec") = Str("chara_card_v2")
    THEN {"name", "description", "personality", "scenario", "first_mes", "mes_example",
          "creator_notes", "system_prompt", "post_history_instructions",
          "alternate_greetings", "tags", "creator", "character_version", "extensions",
          "character_book"}
  ELSE DOMAIN createEmptyEditorData \cup {"character_book", "creation_date", "modification_date"}

\* A card of one of the three wire schemas: no spec marker, or a recognized
\* marker with a data object.
WellFormedCard(card) ==
  /\ card.t = "object"
  /\ \/ ~In("spec", card)
     \/ /\ Get(card, "spec") \in {Str("chara_card_v2"), Str("chara_card_v3")}
        /\ Get(card, "data").t = "object"

UnifiedDefault(k) ==
  CASE k \in {"alternate_greetings", "tags", "assets", "source", "group_only_greetings"} -> Arr(<<>>)
    [] k \in {"extensions", "creator_notes_multilingual"} -> Obj(EmptyMap)
    [] k = "character_version" -> Str("1.0")
    [] k \in {"character_book", "creation_date", "modification_date"} -> Undef
    [] OTHER -> Str("")

\* C12: Lift gives every field the wire document does not provide its
\* default, and character_version "1.0" when the wire value is absent or
\* empty; a Legacy card gets defaults in all Extended and Full fields, an
\* Extended card in all Full-only fields.
C12_LiftFillsDefaults ==
  (LiftedJson /\ WellFormedCard(out.arg)) =>
    /\ ~out.res.throws
    /\ LET wire == WireFields(out.arg)
           provided == {k \in WireKeys(out.arg) : In(k, wire)}
       IN  \A k \in DOMAIN createEmptyEditorData
                     \cup {"character_book", "creation_date", "modification_date"} :
             /\ k \notin provided => Field(out.res.val, k) = UnifiedDefault(k)
             /\ (k = "character_version"
                   /\ (k \notin provided \/ Get(wire, k) = Str("")))
                  => Field(out.res.val, k) = Str("1.0")
             /\ (k \in provided /\ Get(wire, k) # Str(""))
                  => Field(out.res.val, k) = Get(wire, k)

C12_Witness ==
  /\ LiftedJson
  /\ Get(out.arg, "spec") = Str("chara_card_v2")
  /\ Get(Get(out.arg, "data"), "character_version") = Str("")
  /\ Get(Get(out.arg, "data"), "assets") = Arr(<<SampleAsset>>)
  /\ Get(Get(out.arg, "data"), "creator_notes") = Str("notes")
  /\ ~In("name", Get(out.arg, "data"))
  /\ ~out.res.throws
  /\ Field(out.res.val, "assets") = Arr(<<>>)
  /\ Field(out.res.val, "creator_notes") = Str("notes")
  /\ Field(out.res.val, "name") = Str("")
  /\ Field(out.res.val, "character_version") = Str("1.0")

\* C13: lifting a card whose spec is present but is neither "chara_card_v2"
\* nor "chara_card_v3" returns the all-defaults document and does not throw.
C13_UnknownSpecLiftsEmpty ==
  (LiftedJson /\ In("spec", out.arg)
     /\ Get(out.arg, "spec") \notin {Str("chara_card_v2"), Str("chara_card_v3")}) =>
    /\ ~out.res.throws
    /\ out.res.val = createEmptyEditorData

C13_Witness ==
  /\ LiftedJson
  /\ Get(out.arg, "spec") = Str("chara_card_v99")
  /\ Get(out.arg, "name") = Str("A")
  /\ In("assets", Get(out.arg, "data"))
  /\ ~out.res.throws
  /\ out.res.val = createEmptyEditorData

\* C20: for every parsed JSON object Lift returns a document and never throws.
C20_LiftNeverThrows ==
  (LiftedJson /\ out.arg.t = "object") => ~out.res.throws

(***************************************************************************)
(* Properties of Embed (under SpecPng).                                    *)
(***************************************************************************)
Embedded == out.op = "embed" /\ ~out.res.throws

\* A tEXt chunk that decodes with keyword chara or ccv3
IsCardText(c) == c.name = "tEXt" /\ c.data.decodes /\ c.data.keyword \in {"chara", "ccv3"}
IsOtherChunk(c) == ~IsCardText(c)
IsUndecodableText(c) == c.name = "tEXt" /\ ~c.data.decodes
IsOtherKeywordText(c) ==
  c.name = "tEXt" /\ c.data.decodes /\ c.data.keyword \notin {"chara", "ccv3"}

\* The chunk list without its i-th chunk
Without(chunks, i) == SubSeq(chunks, 1, i - 1) \o SubSeq(chunks, i + 1, Len(chunks))

\* C14: the new card chunk sits immediately before the first IEND chunk of
\* the filtered chunk list when there is one, and is the last chunk otherwise.
C14_ChunkBeforeFirstIend ==
  Embedded =>
    LET old == SelectSeq(out.img.chunks, IsOtherChunk)
        new == out.res.val.chunks
        iends == {i \in 1..Len(old) : old[i].name = "IEND"}
        p == IF iends = {} THEN Len(old) + 1
             ELSE CHOOSE i \in iends : \A j \in iends : i <= j
    IN  /\ out.res.val.parses
        /\ Len(new) = Len(old) + 1
        /\ IsCardText(new[p])
        /\ Without(new, p) = old
        /\ iends # {} => new[p + 1].name = "IEND" /\ \A i \in 1..p : new[i].name # "IEND"
        /\ iends = {} => p = Len(new)

C14_Witness ==
  /\ Embedded
  /\ Len(out.img.chunks) = 2
  /\ out.img.chunks[1].name = "IHDR" /\ out.img.chunks[2].name = "IEND"
  /\ Len(out.res.val.chunks) = 3
  /\ out.res.val.chunks[1].name = "IHDR"
  /\ IsCardText(out.res.val.chunks[2])
  /\ out.res.val.chunks[3].name = "IEND"

\* C15: Embed removes every pre-existing tEXt chunk that decodes with keyword
\* chara or ccv3 (the written chunk is the only one left), and keeps every
\* tEXt chunk that fails to decode and every tEXt chunk with another keyword.
C15_EmbedFiltersCardChunks ==
  Embedded =>
    LET old == out.img.chunks
        new == out.res.val.chunks
    IN  /\ Cardinality({i \in 1..Len(new) : IsCardText(new[i])}) = 1
        /\ SelectSeq(new, IsUndecodableText) = SelectSeq(old, IsUndecodableText)
        /\ SelectSeq(new, IsOtherKeywordText) = SelectSeq(old, IsOtherKeywordText)
        /\ SelectSeq(new, IsOtherChunk) = SelectSeq(old, IsOtherChunk)

C15_Witness ==
  /\ Embedded
  /\ Len(out.img.chunks) = 3
  /\ \E i \in 1..3 : IsCardText(out.img.chunks[i])
  /\ \E i \in 1..3 : IsUndecodableText(out.img.chunks[i])
  /\ \E i \in 1..3 : IsOtherKeywordText(out.img.chunks[i])
  /\ Len(out.res.val.chunks) = 3
  /\ \E i \in 1..3 : out.res.val.chunks[i] = BadText

\* C16: the written chunk has keyword chara and the V1 projection for v1,
\* keyword chara and the V2 projection for v2, keyword ccv3 and the V3
\* projection for v3; its text is the base64 of the UTF-8 JSON of the projection.
C16_ChunkKeywordAndPayload ==
  Embedded =>
    LET new == out.res.val.chunks
        c == new[CHOOSE i \in 1..Len(new) : IsCardText(new[i])]
        kw == CASE out.ver = "v1" -> "chara" [] out.ver = "v2" -> "chara" [] out.ver = "v3" -> "ccv3"
        card == CASE out.ver = "v1" -> editorDataToV1(out.doc)
                  [] out.ver = "v2" -> editorDataToV2(out.doc)
                  [] out.ver = "v3" -> editorDataToV3(out.doc)
    IN  /\ c.name = "tEXt"
        /\ ~textDecode(c.data).throws
        /\ textDecode(c.data).val.keyword = kw
        /\ DecodesFully(c.data.text)
        /\ c.data.text.str.val = Serialized(card)

C16_Witness ==
  /\ Embedded /\ out.ver = "v3"
  /\ Field(out.doc, "name") = Str("A")
  /\ \E i \in 1..Len(out.res.val.chunks) :
       /\ out.res.val.chunks[i].data.decodes
       /\ out.res.val.chunks[i].data.keyword = "ccv3"
       /\ out.res.val.chunks[i].data.text.str.val = Serialized(editorDataToV3(out.doc))

(***************************************************************************)
(* The tag Extract gives to the document of a chara chunk (under SpecPng). *)
(***************************************************************************)
\* Extract has returned the document of a chara chunk.
TookChara ==
  /\ Extracted /\ out.img.parses
  /\ ~out.res.throws /\ ~out.res.val.isNull
  /\ CardChunksAt(out.img.chunks, "ccv3") = {}

\* C17: the detectedVersion of a document taken from a chara chunk is the
\* detector's classification of the parsed JSON, which is v1 or v2.
C17_CharaTagIsDetectorTag ==
  TookChara =>
    /\ ~detectCardVersion(out.res.val.card).throws
    /\ out.res.val.detectedVersion = detectCardVersion(out.res.val.card).val
    /\ detectCardVersion(out.res.val.card).val \in {"v1", "v2"}

(***************************************************************************)
(* The editor's import and export handlers.  A file is its name's          *)
(* extension, its MIME type, and its content: JSON text or image bytes.    *)
(* image is the editor's imageBlob, Null while there is none.              *)
(***************************************************************************)
JsonFile(text) ==
  [json |-> TRUE, type |-> "application/json", loads |-> FALSE, text |-> text,
   bytes |-> Malformed]
PngFile(bytes) ==
  [json |-> FALSE, type |-> "image/png", loads |-> TRUE, text |-> NotJson, bytes |-> bytes]
JpegFile(loads) ==
  [json |-> FALSE, type |-> "image/jpeg", loads |-> loads, text |-> NotJson,
   bytes |-> Malformed]
TextFile ==
  [json |-> FALSE, type |-> "text/plain", loads |-> FALSE, text |-> NotJson,
   bytes |-> Malformed]

Ihdr == [name |-> "IHDR", data |-> Opaque]
Iend == [name |-> "IEND", data |-> Opaque]
CardText(card) == EncodeBase64(JSONstringify(card))

\* What canvas.toBlob(..., 'image/png') gives: a PNG without text chunks.
CanvasPng == Png(<<Ihdr, Iend>>)

EditorJsons ==
  {editorDataToV1(StoredDoc), editorDataToV2(StoredDoc), editorDataToV3(StoredDoc),
   Obj([spec |-> Str("chara_card_v2")]), Obj([spec |-> Str("chara_card_v99")]),
   Obj([data |-> Null]), Null}

EditorPngs ==
  {Malformed, Png(<<Ihdr, Iend>>),
   Png(<<Ihdr, textEncode("chara", CardText(editorDataToV2(StoredDoc))), Iend>>),
   Png(<<Ihdr, textEncode("ccv3", CardText(editorDataToV3(StoredDoc))), Iend>>),
   Png(<<Ihdr, textEncode("chara", NotBase64), Iend>>),
   Png(<<Ihdr, textEncode("ccv3", NotJsonText), Iend>>),
   Png(<<Ihdr, BadText, textEncode("ccv3", CardText(editorDataToV3(StoredDoc))), Iend>>),
   Png(<<Ihdr, textEncode("ccv3", CardText(Null)), Iend>>),
   Png(<<Ihdr, textEncode("chara", CardText(Obj([spec |-> Str("chara_card_v2")]))), Iend>>)}

EditorFiles ==
  {JsonFile(NotJson)} \cup {JsonFile(JSONstringify(j)) : j \in EditorJsons}
    \cup {PngFile(b) : b \in EditorPngs}
    \cup {JpegFile(l) : l \in BOOLEAN} \cup {TextFile}

\* reader.readAsDataURL(blob) and fetch(dataUrl) then response.blob()
readAsDataURL(blob) == [dataUrl |-> blob]
dataUrlToBlob(url) == url.dataUrl

EditorState(doc, ver, blob, status) ==
  [cardData |-> doc, version |-> ver, imageBlob |-> blob, status |-> status]

convertImageToPng(file) ==
  IF file.type = "image/png" THEN Ret(file.bytes)
  ELSE IF file.loads THEN Ret(CanvasPng)
  ELSE Thrown

\* Mutant: the catch of handleImport starts a new card.
catchImportErrorClears(doc, ver, blob) ==
  EditorState(createEmptyEditorData, "v2", blob, "Error importing file")

\* catch (error) { setStatus('Error importing file') }
catchImportError(doc, ver, blob) == EditorState(doc, ver, blob, "Error importing file")

handleImport(file, doc, ver, blob) ==
  IF file.json
    THEN LET parsed == JSONparse(file.text)
         IN  IF parsed.throws THEN catchImportError(doc, ver, blob)
             ELSE IF detectCardVersion(parsed.val).throws
                     \/ cardToEditorData(parsed.val).throws
               THEN catchImportError(doc, ver, blob)
             ELSE EditorState(cardToEditorData(parsed.val).val,
                              detectCardVersion(parsed.val).val, blob, "JSON imported")
  ELSE IF file.type \in {"image/png", "image/jpeg"}
    THEN IF convertImageToPng(file).throws
           THEN EditorState(doc, ver, blob, "Failed to convert image to PNG")
         ELSE LET pngBlob == convertImageToPng(file).val
                  extracted == IF file.type = "image/png"
                                 THEN extractCardFromPng(file.bytes) ELSE Ret(NullCard)
              IN  IF extracted.throws THEN catchImportError(doc, ver, blob)
                  ELSE IF ~extracted.val.isNull
                    THEN IF cardToEditorData(extracted.val.card).throws
                           THEN catchImportError(doc, ver, blob)
                         ELSE EditorState(cardToEditorData(extracted.val.card).val,
                                          extracted.val.detectedVersion, pngBlob,
                                          "PNG imported")
                  ELSE EditorState(doc, ver, pngBlob,
                                   "Image imported (no character data found)")
  ELSE EditorState(doc, ver, blob, "Unsupported file format")

handleExportPng(doc, ver, blob) ==
  IF blob = Null THEN [status |-> "Please add an image first", download |-> Null]
  ELSE IF embedCardInPng(blob, doc, ver).throws
    THEN [status |-> "Error exporting PNG", download |-> Null]
  ELSE [status |-> "PNG exported", download |-> embedCardInPng(blob, doc, ver).val]

HandleImport(file) ==
  LET r == handleImport(file, cardData, editorVersion, image)
  IN  /\ cardData' = r.cardData
      /\ editorVersion' = r.version
      /\ image' = r.imageBlob
      /\ imageData' = IF r.status \in {"PNG imported", "Image imported (no character data found)"}
                        THEN readAsDataURL(r.imageBlob) ELSE imageData
      /\ out' = [op |-> "import", status |-> r.status, download |-> Null]
      /\ UNCHANGED pending

HandleExportPng ==
  LET r == handleExportPng(cardData, editorVersion, image)
  IN  /\ out' = [op |-> "exportPng", status |-> r.status, download |-> r.download]
      /\ UNCHANGED <<cardData, editorVersion, image, imageData, pending>>

HandleExportJson ==
  /\ out' = [op |-> "exportJson", status |-> "JSON exported",
             download |-> JSONstringify(Project(cardData, editorVersion))]
  /\ UNCHANGED <<cardData, editorVersion, image, imageData, pending>>

\* The version buttons: onClick={() => setVersion(opt.value)}
SetVersion(ver) ==
  /\ editorVersion' = ver
  /\ out' = [op |-> "setVersion", status |-> "", download |-> Null]
  /\ UNCHANGED <<cardData, image, imageData, pending>>

HandleNewCard ==
  /\ cardData' = createEmptyEditorData
  /\ editorVersion' = "v2"
  /\ image' = Null
  /\ imageData' = Null
  /\ out' = [op |-> "newCard", status |-> "New card created", download |-> Null]
  /\ UNCHANGED pending

InitEditor ==
  /\ cardData \in PngDocs
  /\ editorVersion = "v2"
  /\ image = Null
  /\ out = NoOut
  /\ imageData = Null
  /\ pending = {}

NextEditor ==
  \/ \E f \in EditorFiles : HandleImport(f)
  \/ HandleExportPng
  \/ HandleExportJson
  \/ \E ver \in SpecVersion : SetVersion(ver)
  \/ HandleNewCard

SpecEditor == InitEditor /\ [][NextEditor]_vars

(***************************************************************************)
(* Properties of the handlers (under SpecEditor).                          *)
(***************************************************************************)
\* C18: Embed on a stream that does not parse throws to its caller, and the
\* export produces no image: not the input, not an empty or partial stream.
C18_EmbedThrowsOnUnparseable ==
  (out.op = "exportPng" /\ image # Null /\ ~image.parses) =>
    /\ embedCardInPng(image, cardData, editorVersion).throws
    /\ out.status = "Error exporting PNG"
    /\ out.download = Null

C18_Witness ==
  /\ out.op = "exportPng"
  /\ image = Malformed
  /\ out.status = "Error exporting PNG"
  /\ out.download = Null

\* The statuses of an import or export that returned null or threw.
FailedStatus ==
  {"Error importing file", "Image imported (no character data found)",
   "Failed to convert image to PNG", "Error exporting PNG"}

\* C19: an import or export that fails leaves the document and the version
\* as they were, and no export, failed or not, changes them.
C19_FailedAttemptKeepsDocument ==
  [][/\ (out'.op \in {"import", "exportPng"} /\ out'.status \in FailedStatus)
          => (cardData' = cardData /\ editorVersion' = editorVersion)
     /\ out'.op \in {"exportPng", "exportJson"}
          => (cardData' = cardData /\ editorVersion' = editorVersion)]_vars

C19_Witness ==
  /\ out.op = "import" /\ out.status = "Error importing file"
  /\ cardData = StoredDoc
  /\ editorVersion = "v3"
  /\ image # Null

(***************************************************************************)
(* Frame of Embed (under SpecPng).                                         *)
(***************************************************************************)
\* C21: the output chunk list with the new card chunk deleted equals the
\* input chunk list with its chara/ccv3 text chunks deleted: every other
\* chunk is unmodified and in its original relative order.
C21_EmbedKeepsOtherChunks ==
  Embedded =>
    LET new == out.res.val.chunks
        written == {i \in 1..Len(new) : new[i] = CardChunk(out.doc, out.ver)}
    IN  /\ written # {}
        /\ \E p \in written :
             Without(new, p) = SelectSeq(out.img.chunks, IsOtherChunk)

C21_Witness ==
  /\ Embedded
  /\ Len(out.img.chunks) = 3
  /\ out.img.chunks[1].name = "IEND"
  /\ IsCardText(out.img.chunks[2])
  /\ out.img.chunks[3] = BadText
  /\ Len(out.res.val.chunks) = 3
  /\ out.res.val.chunks[2].name = "IEND"
  /\ out.res.val.chunks[3] = BadText

(***************************************************************************)
(* What the detector depends on (under SpecDetect).                        *)
(***************************************************************************)
\* What the detector may look at: the top-level spec value and which marker
\* keys the top-level data object has.
DetectView(j) ==
  [spec |-> Get(j, "spec"),
   markers |-> {k \in {"group_only_greetings", "assets", "creator_notes", "system_prompt"} :
                  In(k, Get(j, "data"))}]

\* C22: two inputs that agree on the top-level spec and on the marker keys
\* present in the top-level data object get the same classification, and
\* the detector answers (it does not throw or run on) for each of them.
C22_DetectDependsOnMarkersOnly ==
  Detected =>
    /\ ~out.res.throws
    /\ \A j \in JsonInputs :
         DetectView(j) = DetectView(out.arg) => detectCardVersion(j) = out.res

(***************************************************************************)
(* Lift against the detector (under SpecDetect).                           *)
(***************************************************************************)
\* The value Lift gives field k when it reads it from the wire object src.
TakenFrom(src, k) ==
  IF k \in {"character_book", "creation_date", "modification_date"} THEN Get(src, k)
  ELSE IF Truthy(Get(src, k)) THEN Get(src, k)
  ELSE UnifiedDefault(k)

\* C23: Lift reads a JSON object as the schema the detector reports for it:
\* the six base fields from the top level when the detector says v1, the
\* fields of that schema from json.data when it says v2 or v3.
C23_LiftFollowsDetector ==
  (LiftedJson /\ out.arg.t = "object" /\ ~detectCardVersion(out.arg).throws) =>
    LET tag == detectCardVersion(out.arg).val
    IN  /\ ~out.res.throws
        /\ tag = "v1" =>
             \A k \in {"name", "description", "personality", "scenario", "first_mes",
                       "mes_example"} :
               Field(out.res.val, k) = TakenFrom(out.arg, k)
        /\ tag = "v2" =>
             \A k \in WireKeys(Obj([spec |-> Str("chara_card_v2")])) :
               Field(out.res.val, k) = TakenFrom(Get(out.arg, "data"), k)
        /\ tag = "v3" =>
             \A k \in WireKeys(Obj([spec |-> Str("chara_card_v3")])) :
               Field(out.res.val, k) = TakenFrom(Get(out.arg, "data"), k)

(***************************************************************************)
(* The character-book editor.  The book is cardData.character_book; its    *)
(* onChange is updateCardData({ character_book }).  Entry indices are      *)
(* 1-based here.                                                           *)
(***************************************************************************)
MaxEntries == 3
MaxEntryId == 7

createEmptyBookEntry(id) ==
  Obj([keys |-> Arr(<<>>), content |-> Str(""), extensions |-> Obj(EmptyMap),
       enabled |-> Bool(TRUE), insertion_order |-> Num(id), id |-> Num(id),
       name |-> Str(""), priority |-> Num(10), position |-> Str("before_char")])

\* e.id ?? 0
IdOrZero(e) == IF Get(e, "id").t \in {"undefined", "null"} THEN 0 ELSE Get(e, "id").v

\* entries.reduce((max, e) => Math.max(max, e.id ?? 0), max)
RECURSIVE ReduceMaxId(_, _)
ReduceMaxId(entries, max) ==
  IF entries = <<>> THEN max
  ELSE ReduceMaxId(Tail(entries),
                   IF IdOrZero(Head(entries)) > max THEN IdOrZero(Head(entries)) ELSE max)

\* { ...book, entries: entries }
WithEntries(book, entries) == Obj(("entries" :> Arr(entries)) @@ book.v)

\* Mutant: the new id is the number of entries plus one.
addEntryByLength(book) ==
  WithEntries(book, Append(Get(book, "entries").v,
                           createEmptyBookEntry(Len(Get(book, "entries").v) + 1)))

addEntry(book) ==
  LET maxId == ReduceMaxId(Get(book, "entries").v, 0)
  IN  WithEntries(book, Append(Get(book, "entries").v, createEmptyBookEntry(maxId + 1)))

deleteEntry(book, index) ==
  LET entries == Get(book, "entries").v
  IN  WithEntries(book, SubSeq(entries, 1, index - 1) \o SubSeq(entries, index + 1, Len(entries)))

\* An entry as an imported card may carry it: with the id x, or without one.
EntryWithId(x) ==
  IF x = Absent THEN Obj([k \in DOMAIN SampleEntry.v \ {"id"} |-> SampleEntry.v[k]])
  ELSE Obj(("id" :> x) @@ SampleEntry.v)

BookIds == {Absent, Num(0 - 1), Num(0), Num(2), Num(5)}

\* The books an import may have loaded: at most two entries, ids pairwise distinct.
InitialBooks ==
  {Obj([extensions |-> Obj(EmptyMap), entries |-> Arr(<<>>)])}
    \cup {Obj([extensions |-> Obj(EmptyMap), entries |-> Arr(<<EntryWithId(x)>>)]) :
            x \in BookIds}
    \cup {Obj([extensions |-> Obj(EmptyMap),
               entries |-> Arr(<<EntryWithId(p[1]), EntryWithId(p[2])>>)]) :
            p \in {q \in BookIds \X BookIds : q[1] # q[2]}}

book == Field(cardData, "character_book")

CreateBook ==
  /\ editorVersion # "v1" /\ ~Truthy(book)
  /\ cardData' = ("character_book" :> Obj([extensions |-> Obj(EmptyMap), entries |-> Arr(<<>>)]))
                   @@ cardData
  /\ out' = [op |-> "createBook", book |-> book]
  /\ UNCHANGED <<editorVersion, image, imageData, pending>>

RemoveBook ==
  /\ editorVersion # "v1" /\ Truthy(book)
  /\ cardData' = ("character_book" :> Undef) @@ cardData
  /\ out' = [op |-> "removeBook", book |-> book]
  /\ UNCHANGED <<editorVersion, image, imageData, pending>>

AddEntry ==
  /\ editorVersion # "v1" /\ Truthy(book)
  /\ Len(Get(book, "entries").v) < MaxEntries
  /\ ReduceMaxId(Get(book, "entries").v, 0) < MaxEntryId
  /\ cardData' = ("character_book" :> addEntry(book)) @@ cardData
  /\ out' = [op |-> "addEntry", book |-> book]
  /\ UNCHANGED <<editorVersion, image, imageData, pending>>

DeleteEntry(index) ==
  /\ editorVersion # "v1" /\ Truthy(book)
  /\ index \in 1..Len(Get(book, "entries").v)
  /\ cardData' = ("character_book" :> deleteEntry(book, index)) @@ cardData
  /\ out' = [op |-> "deleteEntry", book |-> book]
  /\ UNCHANGED <<editorVersion, image, imageData, pending>>

InitBook ==
  /\ \E b \in InitialBooks \cup {Undef} :
       cardData = ("character_book" :> b) @@ createEmptyEditorData
  /\ editorVersion \in {"v2", "v3"}
  /\ image = Malformed
  /\ out = NoOut
  /\ imageData = Null
  /\ pending = {}

NextBook ==
  \/ CreateBook
  \/ RemoveBook
  \/ AddEntry
  \/ \E index \in 1..MaxEntries : DeleteEntry(index)

SpecBook == InitBook /\ [][NextBook]_vars

(***************************************************************************)
(* Properties of the character-book editor (under SpecBook).               *)
(***************************************************************************)
EntryIds(entries) == {Get(entries[i], "id") : i \in 1..Len(entries)}

\* The largest of 0 and the numeric ids of the entries
LargestId(entries) ==
  LET ns == {0} \cup {x.v : x \in {y \in EntryIds(entries) : y.t = "number"}}
  IN  CHOOSE n \in ns : \A m \in ns : m <= n

\* C24: a new entry gets id and insertion_order 1 + the largest id of the
\* existing entries (an entry without id counting as 0), and through every
\* sequence of add-entry and delete-entry the ids stay pairwise distinct.
C24_EntryIdsDistinct ==
  /\ Truthy(book) =>
       LET entries == Get(book, "entries").v
       IN  \A i, j \in 1..Len(entries) :
             i # j => Get(entries[i], "id") # Get(entries[j], "id")
  /\ out.op = "addEntry" =>
       LET old == Get(out.book, "entries").v
           new == Get(book, "entries").v
       IN  /\ Len(new) = Len(old) + 1
           /\ SubSeq(new, 1, Len(old)) = old
           /\ Get(new[Len(new)], "id") = Num(LargestId(old) + 1)
           /\ Get(new[Len(new)], "insertion_order") = Num(LargestId(old) + 1)

C24_Witness ==
  /\ out.op = "addEntry"
  /\ Len(Get(out.book, "entries").v) = 2
  /\ Get(Get(out.book, "entries").v[1], "id") = Num(5)
  /\ ~In("id", Get(out.book, "entries").v[2])
  /\ Get(Get(book, "entries").v[3], "id") = Num(6)
  /\ Get(Get(book, "entries").v[3], "insertion_order") = Num(6)

(***************************************************************************)
(* Lift after Project as a normalisation (under Spec).                     *)
(***************************************************************************)
\* C25: with n the lift of the projection of d to v, lifting the projection
\* of n to v gives n again in every field, directly and through JSON text.
C25_LiftProjectIdempotent ==
  Lifted =>
    /\ ~out.res.throws
    /\ LET n == out.res.val
           again == cardToEditorData(Project(n, out.ver))
           wired == cardToEditorData(Serialized(Project(n, out.ver)))
       IN  /\ ~again.throws /\ ~wired.throws
           /\ \A k \in V3Fields :
                /\ Field(again.val, k) = Field(n, k)
                /\ Field(wired.val, k) = Field(n, k)

C25_Witness ==
  /\ Lifted /\ out.ver = "v2" /\ ~out.res.throws
  /\ Field(out.doc, "character_version") = Str("")
  /\ Field(out.res.val, "character_version") = Str("1.0")
  /\ Field(cardToEditorData(Project(out.res.val, "v2")).val, "character_version") = Str("1.0")

(***************************************************************************)
(* Sequences of Embed (under SpecEmbedSeq).                                *)
(***************************************************************************)
\* One or more Embeds have succeeded, the last with out.doc and out.ver,
\* the first into out.img.
EmbeddedInTurn == out.op \in {"embed", "reembed"} /\ ~out.res.throws

\* C26: after one or more successful Embeds from a parseable image the
\* stream has exactly one decodable chara/ccv3 text chunk, the chunk of the
\* last Embed, and equals a single Embed of the last document and version
\* into the original image.
C26_LastEmbedWins ==
  EmbeddedInTurn =>
    LET chunks == out.res.val.chunks
        cards == {i \in 1..Len(chunks) : IsCardText(chunks[i])}
    IN  /\ Cardinality(cards) = 1
        /\ \A i \in cards : chunks[i] = CardChunk(out.doc, out.ver)
        /\ out.res = embedCardInPng(out.img, out.doc, out.ver)

C26_Witness ==
  /\ out.op = "reembed" /\ ~out.res.throws
  /\ out.doc # cardData /\ out.ver = "v1"
  /\ \E i \in 1..Len(out.img.chunks) :
       IsCardText(out.img.chunks[i]) /\ out.img.chunks[i].data.keyword = "ccv3"
  /\ \E i \in 1..Len(out.img.chunks) : out.img.chunks[i].name = "IEND"

(***************************************************************************)
(* Which chunk Extract answers from (under SpecPng).                       *)
(***************************************************************************)
\* C27: with a ccv3 text chunk in the stream, Extract answers from the first
\* one alone: its document tagged v3, or null when its text fails base64 or
\* JSON decoding; never from a chara chunk or a later ccv3 chunk.
C27_FirstCcv3Alone ==
  (Extracted /\ out.img.parses /\ CardChunksAt(out.img.chunks, "ccv3") # {}) =>
    LET c == out.img.chunks[FirstCardChunk(out.img.chunks, "ccv3")]
    IN  /\ ~out.res.throws
        /\ out.res.val = (IF DecodesFully(c.data.text)
                            THEN FoundCard(c.data.text.str.val, "v3")
                            ELSE NullCard)

\* A text chunk that carries no card: it fails to decode, or has a keyword
\* other than chara and ccv3.
IsNonCardText(c) == IsUndecodableText(c) \/ IsOtherKeywordText(c)

\* C28: removing from the stream (or adding to it) a text chunk whose
\* keyword is neither chara nor ccv3, or a text chunk that fails to decode,
\* does not change what Extract returns.
C28_NonCardTextIgnored ==
  (Extracted /\ out.img.parses) =>
    \A i \in 1..Len(out.img.chunks) :
      IsNonCardText(out.img.chunks[i]) =>
        extractCardFromPng(Png(Without(out.img.chunks, i))) = out.res

\* C29: whenever Extract of Embed(img, d, v) is not null, its
\* detectedVersion is v.
C29_ReExtractTagIsVersion ==
  (ReExtracted /\ ~out.res.throws /\ ~out.res.val.isNull) =>
    out.res.val.detectedVersion = out.ver

C29_Witness ==
  /\ ReExtracted /\ ~out.res.throws /\ ~out.res.val.isNull
  /\ out.ver = "v1"
  /\ out.res.val.detectedVersion = "v1"
  /\ \E i \in 1..Len(out.img.chunks) :
       IsCardText(out.img.chunks[i]) /\ out.img.chunks[i].data.keyword = "ccv3"

(***************************************************************************)
(* Loading saved cards.  handleLoadSavedCard sets cardData, version and    *)
(* imageData at once and the imageBlob when its dataUrlToBlob completes;   *)
(* several conversions may be in flight and complete in any order.  Two    *)
(* conversions of the same data URL give the same blob and are held once.  *)
(***************************************************************************)
PortraitA == Png(<<Ihdr, Iend>>)
PortraitB == Png(<<Ihdr, textEncode("Comment", NotBase64), Iend>>)

SavedCards ==
  {[cardData |-> StoredDoc, version |-> "v2", imageData |-> readAsDataURL(PortraitA)],
   [cardData |-> ("nickname" :> Str("N")) @@ createEmptyEditorData, version |-> "v3",
    imageData |-> readAsDataURL(PortraitB)],
   [cardData |-> createEmptyEditorData, version |-> "v1", imageData |-> Null]}

HandleLoadSavedCard(card) ==
  /\ cardData' = card.cardData
  /\ editorVersion' = card.version
  /\ imageData' = card.imageData
  /\ IF card.imageData # Null
       THEN pending' = pending \cup {card.imageData} /\ image' = image
       ELSE pending' = pending /\ image' = Null
  /\ out' = [op |-> "load"]

\* `await dataUrlToBlob(card.imageData)` returns: setImageBlob(blob)
ConversionDone(url) ==
  /\ url \in pending
  /\ image' = dataUrlToBlob(url)
  /\ pending' = pending \ {url}
  /\ out' = [op |-> "converted"]
  /\ UNCHANGED <<cardData, editorVersion, imageData>>

\* handleImageChange(dataUrl, blob) from the image uploader
HandleImageChange(blob) ==
  /\ imageData' = readAsDataURL(blob)
  /\ image' = blob
  /\ out' = [op |-> "imageChange"]
  /\ UNCHANGED <<cardData, editorVersion, pending>>

InitLoad ==
  /\ cardData = createEmptyEditorData
  /\ editorVersion = "v2"
  /\ image = Null
  /\ out = NoOut
  /\ imageData = Null
  /\ pending = {}

NextLoad ==
  \/ \E card \in SavedCards : HandleLoadSavedCard(card)
  \/ \E url \in {readAsDataURL(PortraitA), readAsDataURL(PortraitB)} : ConversionDone(url)
  \/ \E blob \in {PortraitA, PortraitB} : HandleImageChange(blob)
  \/ HandleExportPng

SpecLoad == InitLoad /\ [][NextLoad]_vars

(***************************************************************************)
(* Properties of loading saved cards (under SpecLoad).                     *)
(***************************************************************************)
\* C30: once no conversion is pending, the image blob used for PNG export
\* is the one of the image data shown (none when no image is shown),
\* whatever order the conversions completed in.
C30_BlobMatchesShownImage ==
  pending = {} =>
    image = (IF imageData = Null THEN Null ELSE dataUrlToBlob(imageData))

====
